---- MODULE Spec2Model ----
(***************************************************************************)
(* GeminiAgent (queueing variant) and GeminiResponseHandler as a state     *)
(* machine.  One atomic step is the code that runs between two awaits on   *)
(* real I/O (transport request, upstream call, next stream chunk, timer).  *)
(* Continuations of already-settled promises (the return of an async       *)
(* function into its caller, "await this.dispose()") are promise jobs and  *)
(* run before the next I/O callback, so they belong to the same step.      *)
(*                                                                         *)
(* Inbound message m (1..MaxMsgs, in arrival order) gets the target chat   *)
(* message with the same number, and the response handler built for it is  *)
(* handler m.  The channel logs record a request when it is issued; the    *)
(* step that resumes after the await chooses whether it resolved or        *)
(* rejected.                                                               *)
(***************************************************************************)
EXTENDS Integers, Sequences, FiniteSets, TLC

\* ---- bounds of the model -------------------------------------------------
MaxMsgs == 3
MaxChunks == 2
MaxFails == 1
MaxUpFails == 1
MaxTicks == 1
CoreMsgs == 2
CoreChunks == 1
StreamMsgs == 1
MaxCallFails == 4
MaxRequests == 3

\* ---- program constants ---------------------------------------------------
MinCallSpacing == 4000
FlushInterval == 1000
maxRetries == 3

\* Date.now() when the agent is constructed (line 225): any value far from 0
Now0 == 10 * MinCallSpacing

\* the time the stream may take to deliver a chunk
Delays == {0, FlushInterval, FlushInterval + 1}

MsgIds == 1..MaxMsgs

\* control-plane requests for one channel_id, in arrival order; the agent that
\* request r creates is agent r
ReqIds == 1..MaxRequests
NoAgent == 0

SorryText == <<"Sorry, I encountered an error. Please try again.">>
ErrorText == <<"Error">>
Fragment(k) == <<ToString(k)>>

\* the step just taken was not the delivery of a chat-client event or of a
\* stream item
NoEvent == [type |-> "none"]

VARIABLES
  genai, subscribed, isProcessing, lastInteractionTs, lastApiCallTs,
  apiCallCount, messageQueue, chatHistory, handlers,
  pc, attempt, wakeAt,
  is_done, message_text, last_update_time, listening, notified, stop_pc,
  flushNow, flushedAt, chunks,
  writes, events,
  now, ticks, arrived, tfails, ufails, lastEv, dpc, attemptsAt,
  activeAgents, reqPc, reqAgent, agentState

\* flushedAt[m] is the time at which handler m issued its latest in-loop write
\* (0: none yet), attemptsAt[m] the times at which generateContentStream was
\* called for message m; they are read by no action

agentVars == <<genai, subscribed, isProcessing, lastInteractionTs,
               lastApiCallTs, apiCallCount, messageQueue, chatHistory, handlers>>
procVars == <<pc, attempt, wakeAt>>
handlerVars == <<is_done, message_text, last_update_time, listening, notified,
                 stop_pc, flushNow, flushedAt, chunks>>
chanVars == <<writes, events>>
envVars == <<now, ticks, arrived, tfails, ufails, lastEv, dpc, attemptsAt>>
\* the control plane: the agent recorded under the channel_id, each request's
\* position and agent, and each agent's subscription to message.new
ctlVars == <<activeAgents, reqPc, reqAgent, agentState>>
vars == <<agentVars, procVars, handlerVars, chanVars, envVars, ctlVars>>

Init ==
  /\ genai = FALSE
  /\ subscribed = FALSE
  /\ isProcessing = FALSE
  /\ lastInteractionTs = Now0
  /\ lastApiCallTs = 0
  /\ apiCallCount = 0
  /\ messageQueue = <<>>
  /\ chatHistory = <<>>
  /\ handlers = <<>>
  /\ pc = [m \in MsgIds |-> "none"]
  /\ attempt = [m \in MsgIds |-> 0]
  /\ wakeAt = [m \in MsgIds |-> 0]
  /\ is_done = [m \in MsgIds |-> FALSE]
  /\ message_text = [m \in MsgIds |-> <<>>]
  /\ last_update_time = [m \in MsgIds |-> 0]
  /\ listening = [m \in MsgIds |-> FALSE]
  /\ notified = [m \in MsgIds |-> 0]
  /\ stop_pc = [m \in MsgIds |-> "none"]
  /\ flushNow = [m \in MsgIds |-> 0]
  /\ flushedAt = [m \in MsgIds |-> 0]
  /\ chunks = 0
  /\ writes = [m \in MsgIds |-> <<>>]
  /\ events = [m \in MsgIds |-> <<>>]
  /\ now = Now0
  /\ ticks = 0
  /\ arrived = 0
  /\ tfails = 0
  /\ ufails = 0
  /\ lastEv = NoEvent
  /\ dpc = "none"
  /\ attemptsAt = [m \in MsgIds |-> <<>>]
  /\ activeAgents = NoAgent
  /\ reqPc = [r \in ReqIds |-> "none"]
  /\ reqAgent = [r \in ReqIds |-> NoAgent]
  /\ agentState = [a \in ReqIds |-> "none"]

\* ---- helpers -------------------------------------------------------------
Max(a, b) == IF a > b THEN a ELSE b

Ev(by, ev) == [by |-> by, ev |-> ev]
Wr(by, text) == [by |-> by, text |-> text]

IssueEvent(m, by, ev) == events' = [events EXCEPT ![m] = Append(@, Ev(by, ev))]
IssueWrite(m, by, text) == writes' = [writes EXCEPT ![m] = Append(@, Wr(by, text))]

\* a transport request may reject while the failure budget lasts
Outcome(ok) == IF ok THEN tfails' = tfails ELSE tfails < MaxFails /\ tfails' = tfails + 1

UserTurn(m) == [role |-> "user", msg |-> m]
ModelTurn(m, text) == [role |-> "model", msg |-> m, text |-> text]

\* ---- GeminiAgent: inbound events ------------------------------------------
\* the inbound message.new events the chat client can deliver
InboundEvents ==
  { [user |-> "other", hasMessage |-> TRUE,  ai_generated |-> FALSE, hasText |-> TRUE],
    [user |-> "bot",   hasMessage |-> TRUE,  ai_generated |-> FALSE, hasText |-> TRUE],
    [user |-> "other", hasMessage |-> FALSE, ai_generated |-> FALSE, hasText |-> FALSE],
    [user |-> "other", hasMessage |-> TRUE,  ai_generated |-> TRUE,  hasText |-> TRUE],
    [user |-> "other", hasMessage |-> TRUE,  ai_generated |-> FALSE, hasText |-> FALSE] }

\* handleMessage lines 292-307: the event survives the filters
Accepted_AiGenerated(e) ==
  /\ genai
  /\ e.user # "bot"
  /\ e.hasMessage
  /\ e.hasText

Accepted(e) ==
  /\ genai
  /\ e.user # "bot"
  /\ e.hasMessage /\ ~e.ai_generated
  /\ e.hasText

\* handleMessage line 314
Busy_Never == FALSE
Busy == isProcessing

\* handleMessage line 318 / line 326
Enqueue(q, m) == Append(q, m)
Dequeue_Pop(q) == [next |-> q[Len(q)], rest |-> SubSeq(q, 1, Len(q) - 1)]
Dequeue(q) == [next |-> Head(q), rest |-> Tail(q)]

\* processMessage lines 337-353 up to the await of channel.sendMessage,
\* as the new values of the fields it assigns
StartProcessing(m, hist, q, pcs, t) ==
  /\ isProcessing' = TRUE
  /\ lastInteractionTs' = t
  /\ chatHistory' = Append(hist, UserTurn(m))
  /\ messageQueue' = q
  /\ pc' = [pcs EXCEPT ![m] = "sendMessage"]

\* processMessage has returned normally for m with history hist: the finally
\* of lines 471-473, then the while loop of handleMessage lines 325-331
Resolve(m, hist, t) ==
  LET pcs == [pc EXCEPT ![m] = "done"] IN
  IF Len(messageQueue) > 0
    THEN StartProcessing(Dequeue(messageQueue).next, hist,
                         Dequeue(messageQueue).rest, pcs, t)
    ELSE /\ isProcessing' = FALSE
         /\ chatHistory' = hist
         /\ pc' = pcs
         /\ UNCHANGED <<messageQueue, lastInteractionTs>>

\* GeminiAgent.init
AgentInit(hasKey) ==
  /\ ~genai /\ dpc = "none"
  /\ IF hasKey
       THEN genai' = TRUE /\ subscribed' = TRUE
       ELSE UNCHANGED <<genai, subscribed>>
  /\ UNCHANGED <<isProcessing, lastInteractionTs, lastApiCallTs, apiCallCount, attemptsAt,
                 messageQueue, chatHistory, handlers>>
  /\ UNCHANGED <<procVars, handlerVars, chanVars>>
  /\ UNCHANGED <<now, ticks, arrived, tfails, ufails, dpc>>
  /\ lastEv' = NoEvent
  /\ UNCHANGED ctlVars

\* GeminiAgent.handleMessage, called by the chat client for a message.new event
HandleMessage(e) ==
  /\ subscribed
  /\ lastEv' = [type |-> "message.new", accepted |-> Accepted(e), event |-> e]
  /\ IF ~Accepted(e)
       THEN UNCHANGED <<arrived, isProcessing, lastInteractionTs, chatHistory,
                        messageQueue, pc>>
       ELSE /\ arrived < MaxMsgs
            /\ arrived' = arrived + 1
            /\ IF Busy
                 THEN /\ messageQueue' = Enqueue(messageQueue, arrived + 1)
                      /\ UNCHANGED <<isProcessing, lastInteractionTs, chatHistory, pc>>
                 ELSE StartProcessing(arrived + 1, chatHistory, messageQueue, pc, now)
  /\ UNCHANGED <<genai, subscribed, lastApiCallTs, apiCallCount, attemptsAt, handlers>>
  /\ UNCHANGED <<attempt, wakeAt>>
  /\ UNCHANGED <<handlerVars, chanVars, now, ticks, tfails, ufails, dpc>>
  /\ UNCHANGED ctlVars

\* ---- GeminiAgent.processMessage -------------------------------------------
\* the ai_state of the indicator events of lines 361 and 379
ThinkingState == "AI_STATE_THINKING"
GeneratingState_Thinking == "AI_STATE_THINKING"
GeneratingState == "AI_STATE_GENERATING"

\* the await of channel.sendMessage (line 353) settles
SendMessageDone(m, ok) ==
  /\ pc[m] = "sendMessage"
  /\ Outcome(ok)
  /\ IF ok
       THEN /\ IssueEvent(m, "agent", ThinkingState)
            /\ pc' = [pc EXCEPT ![m] = "sendThinking"]
       ELSE /\ pc' = [pc EXCEPT ![m] = "threw"]
            /\ UNCHANGED events
  /\ UNCHANGED <<agentVars, attemptsAt, attempt, wakeAt, handlerVars, writes,
                 now, ticks, arrived, ufails, dpc>>
  /\ lastEv' = NoEvent
  /\ UNCHANGED ctlVars

\* lines 367-368
MustWait(t) == t - lastApiCallTs < MinCallSpacing /\ lastApiCallTs > 0
WaitTime(t) == MinCallSpacing - (t - lastApiCallTs)

\* the await of the THINKING event (line 359) settles
SendThinkingDone(m, ok) ==
  /\ pc[m] = "sendThinking"
  /\ Outcome(ok)
  /\ IF ~ok
       THEN /\ pc' = [pc EXCEPT ![m] = "threw"]
            /\ UNCHANGED <<events, wakeAt>>
       ELSE IF MustWait(now)
         THEN /\ wakeAt' = [wakeAt EXCEPT ![m] = now + WaitTime(now)]
              /\ pc' = [pc EXCEPT ![m] = "spacing"]
              /\ UNCHANGED events
         ELSE /\ IssueEvent(m, "agent", GeneratingState)
              /\ pc' = [pc EXCEPT ![m] = "sendGenerating"]
              /\ UNCHANGED wakeAt
  /\ UNCHANGED <<agentVars, attemptsAt, attempt, handlerVars, writes,
                 now, ticks, arrived, ufails, dpc>>
  /\ lastEv' = NoEvent
  /\ UNCHANGED ctlVars

\* the spacing timer of line 373 fires
SpacingDone(m) ==
  /\ pc[m] = "spacing"
  /\ now' = Max(now, wakeAt[m])
  /\ wakeAt' = [wakeAt EXCEPT ![m] = 0]
  /\ IssueEvent(m, "agent", GeneratingState)
  /\ pc' = [pc EXCEPT ![m] = "sendGenerating"]
  /\ UNCHANGED <<agentVars, attemptsAt, attempt, handlerVars, writes,
                 ticks, arrived, tfails, ufails, dpc>>
  /\ lastEv' = NoEvent
  /\ UNCHANGED ctlVars

\* the await of the GENERATING event (line 377) settles; lines 385-396
SendGeneratingDone(m, ok) ==
  /\ pc[m] = "sendGenerating"
  /\ Outcome(ok)
  /\ IF ok
       THEN /\ apiCallCount' = apiCallCount + 1
            /\ lastApiCallTs' = now
            /\ attempt' = [attempt EXCEPT ![m] = 0]
            /\ attemptsAt' = [attemptsAt EXCEPT ![m] = Append(@, now)]
            /\ pc' = [pc EXCEPT ![m] = "call"]
       ELSE /\ pc' = [pc EXCEPT ![m] = "threw"]
            /\ UNCHANGED <<apiCallCount, attemptsAt, lastApiCallTs, attempt>>
  /\ UNCHANGED <<genai, subscribed, isProcessing, lastInteractionTs,
                 messageQueue, chatHistory, handlers>>
  /\ UNCHANGED <<wakeAt, handlerVars, chanVars, now, ticks, arrived, ufails, dpc>>
  /\ lastEv' = NoEvent
  /\ UNCHANGED ctlVars

\* ---- GeminiResponseHandler ------------------------------------------------
\* GeminiAgent.removeHandler
removeHandler(hs, m) == SelectSeq(hs, LAMBDA h : h # m)

\* GeminiResponseHandler.dispose, as the new values of the fields it assigns
DisposeHandler_Unguarded(m) ==
  /\ is_done' = [is_done EXCEPT ![m] = TRUE]
  /\ listening' = [listening EXCEPT ![m] = FALSE]
  /\ notified' = [notified EXCEPT ![m] = @ + 1]
  /\ handlers' = removeHandler(handlers, m)

DisposeHandler(m) ==
  IF is_done[m]
    THEN UNCHANGED <<is_done, listening, notified, handlers>>
    ELSE /\ is_done' = [is_done EXCEPT ![m] = TRUE]
         /\ listening' = [listening EXCEPT ![m] = FALSE]
         /\ notified' = [notified EXCEPT ![m] = @ + 1]
         /\ handlers' = removeHandler(handlers, m)

\* run() returns message_text (line 545 or 549) through the finally of line
\* 551, and processMessage continues at lines 437-447 and 471-473
ReturnFromRun_AlwaysTurn(m, t) ==
  /\ DisposeHandler(m)
  /\ Resolve(m, Append(chatHistory, ModelTurn(m, message_text[m])), t)

ReturnFromRun(m, t) ==
  /\ DisposeHandler(m)
  /\ Resolve(m, IF message_text[m] # <<>>
                  THEN Append(chatHistory, ModelTurn(m, message_text[m]))
                  ELSE chatHistory, t)

\* the catch of processMessage, lines 448-459 up to the await of the event
EnterCatch_NoEvent(m) ==
  /\ UNCHANGED events
  /\ pc' = [pc EXCEPT ![m] = "catchEvent"]

EnterCatch(m) ==
  /\ IssueEvent(m, "agent", "AI_STATE_ERROR")
  /\ pc' = [pc EXCEPT ![m] = "catchEvent"]

\* run() rejects (handleError threw inside the catch of line 546) through the
\* finally of line 551, and processMessage catches it at line 448
RunThrows(m) ==
  /\ DisposeHandler(m)
  /\ EnterCatch(m)

\* handleError lines 589-598, entered from the catch of run() (line 548)
EnterHandleError(m) ==
  IF is_done[m]
    THEN ReturnFromRun(m, now) /\ UNCHANGED events
    ELSE /\ IssueEvent(m, "error", "AI_STATE_ERROR")
         /\ pc' = [pc EXCEPT ![m] = "err_event"]
         /\ UNCHANGED <<is_done, listening, notified, handlers>>
         /\ UNCHANGED <<isProcessing, chatHistory, messageQueue, lastInteractionTs>>

\* retry loop, lines 406-410: the error description is classified
IsRateLimit(outcome) == outcome \in {"429", "quota", "Too Many Requests"}

\* what the await of generateContentStream may settle with: success, or an
\* error with one of these descriptions
UpstreamOutcomes == {"ok", "429", "quota", "Too Many Requests", "error"}

\* retry loop, line 412
BackoffDelay_Linear(a) == (a + 1) * 2000
BackoffDelay(a) == 2^(a + 1) * 1000

\* the await of generateContentStream (line 396) settles
CallDone(m, outcome) ==
  /\ pc[m] = "call"
  /\ IF outcome = "ok"
       THEN ufails' = ufails
       ELSE ufails < MaxCallFails /\ ufails' = ufails + 1
  /\ IF outcome = "ok"
       THEN \* lines 427-436: the handler is constructed and run() starts
            /\ listening' = [listening EXCEPT ![m] = TRUE]
            /\ handlers' = Append(handlers, m)
            /\ pc' = [pc EXCEPT ![m] = "run_next"]
            /\ attempt' = [attempt EXCEPT ![m] = 0]
            /\ UNCHANGED <<wakeAt, events>>
       ELSE IF IsRateLimit(outcome) /\ attempt[m] < maxRetries
         THEN /\ wakeAt' = [wakeAt EXCEPT ![m] = now + BackoffDelay(attempt[m])]
              /\ pc' = [pc EXCEPT ![m] = "backoff"]
              /\ UNCHANGED <<listening, handlers, events, attempt>>
         ELSE \* line 418 throws into the catch of line 448
              /\ EnterCatch(m)
              /\ attempt' = [attempt EXCEPT ![m] = 0]
              /\ UNCHANGED <<listening, handlers, wakeAt>>
  /\ UNCHANGED <<genai, subscribed, isProcessing, lastInteractionTs, lastApiCallTs,
                 apiCallCount, attemptsAt, messageQueue, chatHistory>>
  /\ UNCHANGED <<is_done, message_text, last_update_time, notified,
                 stop_pc, flushNow, flushedAt, chunks, writes>>
  /\ UNCHANGED <<now, ticks, arrived, tfails, dpc>>
  /\ lastEv' = [type |-> "call.settled", message_id |-> m, outcome |-> outcome]
  /\ UNCHANGED ctlVars

\* the backoff timer of line 416 fires and the loop makes the next attempt
BackoffDone(m) ==
  /\ pc[m] = "backoff"
  /\ now' = Max(now, wakeAt[m])
  /\ wakeAt' = [wakeAt EXCEPT ![m] = 0]
  /\ attempt' = [attempt EXCEPT ![m] = @ + 1]
  /\ attemptsAt' = [attemptsAt EXCEPT ![m] = Append(@, Max(now, wakeAt[m]))]
  /\ pc' = [pc EXCEPT ![m] = "call"]
  /\ UNCHANGED <<agentVars, handlerVars, chanVars,
                 ticks, arrived, tfails, ufails, dpc>>
  /\ lastEv' = NoEvent
  /\ UNCHANGED ctlVars

\* run() line 508
StopRequested_Ignored(m) == FALSE
StopRequested(m) == is_done[m]

\* run() line 513
Accumulate_Replace(old, text) == text
Accumulate(old, text) == old \o text

\* run() line 516
FlushDue_Always(m, t) == TRUE
FlushDue(m, t) == t - last_update_time[m] > FlushInterval

\* the stream yields its next chunk with the given text, d ms after run()
\* began to wait for it (lines 507-523)
StreamChunk(m, text, d) ==
  LET t == now + d IN
  /\ pc[m] = "run_next"
  /\ chunks < MaxChunks
  /\ chunks' = chunks + 1
  /\ IF d = 0 THEN ticks' = ticks ELSE ticks < MaxTicks /\ ticks' = ticks + 1
  /\ now' = t
  /\ IF StopRequested(m)
       THEN \* break, line 531 is false, return
            /\ ReturnFromRun(m, t)
            /\ UNCHANGED <<message_text, flushNow, flushedAt, writes>>
       ELSE /\ UNCHANGED <<is_done, listening, notified, handlers>>
            /\ UNCHANGED <<isProcessing, chatHistory, messageQueue, lastInteractionTs>>
            /\ IF text = <<>>
                 THEN UNCHANGED <<message_text, flushNow, flushedAt, writes, pc>>
                 ELSE /\ message_text' = [message_text EXCEPT ![m] = Accumulate(@, text)]
                      /\ IF FlushDue(m, t)
                           THEN /\ IssueWrite(m, "flush", Accumulate(message_text[m], text))
                                /\ flushNow' = [flushNow EXCEPT ![m] = t]
                                /\ flushedAt' = [flushedAt EXCEPT ![m] = t]
                                /\ pc' = [pc EXCEPT ![m] = "run_flush"]
                           ELSE UNCHANGED <<flushNow, flushedAt, writes, pc>>
  /\ UNCHANGED <<genai, subscribed, lastApiCallTs, apiCallCount, attemptsAt>>
  /\ UNCHANGED <<attempt, wakeAt, last_update_time, stop_pc, events>>
  /\ UNCHANGED <<arrived, tfails, ufails, dpc>>
  /\ lastEv' = [type |-> "stream.chunk", message_id |-> m, text |-> text]
  /\ UNCHANGED ctlVars

\* the await of the throttled write (line 517) settles
FlushDone(m, ok) ==
  /\ pc[m] = "run_flush"
  /\ Outcome(ok)
  /\ flushNow' = [flushNow EXCEPT ![m] = 0]
  /\ UNCHANGED flushedAt
  /\ IF ok
       THEN /\ last_update_time' = [last_update_time EXCEPT ![m] = flushNow[m]]
            /\ pc' = [pc EXCEPT ![m] = "run_next"]
            /\ UNCHANGED <<is_done, listening, notified, handlers, events>>
            /\ UNCHANGED <<isProcessing, chatHistory, messageQueue, lastInteractionTs>>
       ELSE EnterHandleError(m) /\ UNCHANGED last_update_time
  /\ UNCHANGED <<genai, subscribed, lastApiCallTs, apiCallCount, attemptsAt>>
  /\ UNCHANGED <<attempt, wakeAt, message_text, stop_pc, chunks, writes>>
  /\ UNCHANGED <<now, ticks, arrived, ufails, dpc>>
  /\ lastEv' = NoEvent
  /\ UNCHANGED ctlVars

\* the stream is exhausted (lines 526-536)
StreamEnd(m) ==
  /\ pc[m] = "run_next"
  /\ IF ~is_done[m]
       THEN /\ IssueWrite(m, "final", message_text[m])
            /\ pc' = [pc EXCEPT ![m] = "run_final_write"]
            /\ UNCHANGED <<is_done, listening, notified, handlers>>
            /\ UNCHANGED <<isProcessing, chatHistory, messageQueue, lastInteractionTs>>
       ELSE ReturnFromRun(m, now) /\ UNCHANGED writes
  /\ UNCHANGED <<genai, subscribed, lastApiCallTs, apiCallCount, attemptsAt>>
  /\ UNCHANGED <<attempt, wakeAt, message_text, last_update_time, stop_pc,
                 flushNow, flushedAt, chunks, events>>
  /\ UNCHANGED <<now, ticks, arrived, tfails, ufails, dpc>>
  /\ lastEv' = [type |-> "stream.end", message_id |-> m]
  /\ UNCHANGED ctlVars

\* the stream throws while run() awaits its next chunk (line 546)
StreamError(m) ==
  /\ pc[m] = "run_next"
  /\ ufails < MaxUpFails
  /\ ufails' = ufails + 1
  /\ EnterHandleError(m)
  /\ UNCHANGED <<genai, subscribed, lastApiCallTs, apiCallCount, attemptsAt>>
  /\ UNCHANGED <<attempt, wakeAt, message_text, last_update_time, stop_pc,
                 flushNow, flushedAt, chunks, writes>>
  /\ UNCHANGED <<now, ticks, arrived, tfails, dpc>>
  /\ lastEv' = [type |-> "stream.error", message_id |-> m]
  /\ UNCHANGED ctlVars

\* the await of the final write (line 532) settles
FinalWriteDone(m, ok) ==
  /\ pc[m] = "run_final_write"
  /\ Outcome(ok)
  /\ IF ok
       THEN /\ IssueEvent(m, "final", "ai_indicator.clear")
            /\ pc' = [pc EXCEPT ![m] = "run_final_clear"]
            /\ UNCHANGED <<is_done, listening, notified, handlers>>
            /\ UNCHANGED <<isProcessing, chatHistory, messageQueue, lastInteractionTs>>
       ELSE EnterHandleError(m)
  /\ UNCHANGED <<genai, subscribed, lastApiCallTs, apiCallCount, attemptsAt>>
  /\ UNCHANGED <<attempt, wakeAt, message_text, last_update_time, stop_pc,
                 flushNow, flushedAt, chunks, writes>>
  /\ UNCHANGED <<now, ticks, arrived, ufails, dpc>>
  /\ lastEv' = NoEvent
  /\ UNCHANGED ctlVars

\* the await of the clear event (line 538) settles
FinalClearDone(m, ok) ==
  /\ pc[m] = "run_final_clear"
  /\ Outcome(ok)
  /\ IF ok
       THEN ReturnFromRun(m, now) /\ UNCHANGED events
       ELSE EnterHandleError(m)
  /\ UNCHANGED <<genai, subscribed, lastApiCallTs, apiCallCount, attemptsAt>>
  /\ UNCHANGED <<attempt, wakeAt, message_text, last_update_time, stop_pc,
                 flushNow, flushedAt, chunks, writes>>
  /\ UNCHANGED <<now, ticks, arrived, ufails, dpc>>
  /\ lastEv' = NoEvent
  /\ UNCHANGED ctlVars

\* handleError: the await of the ERROR event (line 593) settles
ErrEventDone(m, ok) ==
  /\ pc[m] = "err_event"
  /\ Outcome(ok)
  /\ IF ok
       THEN /\ IssueWrite(m, "error", ErrorText)
            /\ pc' = [pc EXCEPT ![m] = "err_update"]
            /\ UNCHANGED <<is_done, listening, notified, handlers, events>>
       ELSE RunThrows(m) /\ UNCHANGED writes
  /\ UNCHANGED <<genai, subscribed, isProcessing, lastInteractionTs, lastApiCallTs,
                 apiCallCount, attemptsAt, messageQueue, chatHistory>>
  /\ UNCHANGED <<attempt, wakeAt, message_text, last_update_time, stop_pc,
                 flushNow, flushedAt, chunks>>
  /\ UNCHANGED <<now, ticks, arrived, ufails, dpc>>
  /\ lastEv' = NoEvent
  /\ UNCHANGED ctlVars

\* handleError: the await of the error-text write (line 599) settles
ErrUpdateDone(m, ok) ==
  /\ pc[m] = "err_update"
  /\ Outcome(ok)
  /\ IF ok
       THEN \* line 604 disposes, run() returns at line 549
            ReturnFromRun(m, now) /\ UNCHANGED events
       ELSE /\ RunThrows(m)
            /\ UNCHANGED <<isProcessing, chatHistory, messageQueue, lastInteractionTs>>
  /\ UNCHANGED <<genai, subscribed, lastApiCallTs, apiCallCount, attemptsAt>>
  /\ UNCHANGED <<attempt, wakeAt, message_text, last_update_time, stop_pc,
                 flushNow, flushedAt, chunks, writes>>
  /\ UNCHANGED <<now, ticks, arrived, ufails, dpc>>
  /\ lastEv' = NoEvent
  /\ UNCHANGED ctlVars

\* processMessage catch: the await of the ERROR event (line 454) settles
CatchEventDone(m, ok) ==
  /\ pc[m] = "catchEvent"
  /\ Outcome(ok)
  /\ IF ok
       THEN /\ IssueWrite(m, "agent", SorryText)
            /\ pc' = [pc EXCEPT ![m] = "catchUpdate"]
            /\ UNCHANGED <<isProcessing, chatHistory, messageQueue, lastInteractionTs>>
       ELSE \* inner catch of line 465, then the finally
            Resolve(m, chatHistory, now) /\ UNCHANGED writes
  /\ UNCHANGED <<genai, subscribed, lastApiCallTs, apiCallCount, attemptsAt, handlers>>
  /\ UNCHANGED <<attempt, wakeAt, handlerVars, events>>
  /\ UNCHANGED <<now, ticks, arrived, ufails, dpc>>
  /\ lastEv' = NoEvent
  /\ UNCHANGED ctlVars

\* processMessage catch: the await of the failure-notice write (line 460) settles
CatchUpdateDone(m, ok) ==
  /\ pc[m] = "catchUpdate"
  /\ Outcome(ok)
  /\ Resolve(m, chatHistory, now)
  /\ UNCHANGED <<genai, subscribed, lastApiCallTs, apiCallCount, attemptsAt, handlers>>
  /\ UNCHANGED <<attempt, wakeAt, handlerVars, chanVars>>
  /\ UNCHANGED <<now, ticks, arrived, ufails, dpc>>
  /\ lastEv' = NoEvent
  /\ UNCHANGED ctlVars

\* ---- GeminiResponseHandler.handleStopGenerating ---------------------------
\* line 565: the handler acts on the stop event
HandlesStop_AnyId(m, id) == ~is_done[m]
HandlesStop(m, id) == ~is_done[m] /\ id = m

\* the chat client delivers ai_indicator.stop with message_id = id to every
\* registered listener; lines 565-581 up to the first await
StopSignal(id) ==
  LET T == {m \in MsgIds : listening[m] /\ HandlesStop(m, id)} IN
  /\ \E m \in MsgIds : listening[m]
  /\ lastEv' = [type |-> "ai_indicator.stop", message_id |-> id]
  /\ is_done' = [m \in MsgIds |-> IF m \in T THEN TRUE ELSE is_done[m]]
  /\ stop_pc' = [m \in MsgIds |->
                   IF m \notin T THEN stop_pc[m]
                   ELSE IF message_text[m] # <<>> THEN "write" ELSE "clear"]
  /\ writes' = [m \in MsgIds |->
                  IF m \in T /\ message_text[m] # <<>>
                    THEN Append(writes[m], Wr("stop", message_text[m]))
                    ELSE writes[m]]
  /\ events' = [m \in MsgIds |->
                  IF m \in T /\ message_text[m] = <<>>
                    THEN Append(events[m], Ev("stop", "ai_indicator.clear"))
                    ELSE events[m]]
  /\ UNCHANGED <<agentVars, attemptsAt, procVars>>
  /\ UNCHANGED <<message_text, last_update_time, listening, notified, flushNow, flushedAt, chunks>>
  /\ UNCHANGED <<now, ticks, arrived, tfails, ufails, dpc>>
  /\ UNCHANGED ctlVars

\* the await of the stop handler's write (line 574) settles
StopWriteDone(m, ok) ==
  /\ stop_pc[m] = "write"
  /\ Outcome(ok)
  /\ IF ok
       THEN /\ IssueEvent(m, "stop", "ai_indicator.clear")
            /\ stop_pc' = [stop_pc EXCEPT ![m] = "clear"]
       ELSE /\ stop_pc' = [stop_pc EXCEPT ![m] = "threw"]
            /\ UNCHANGED events
  /\ UNCHANGED <<agentVars, attemptsAt, procVars, writes>>
  /\ UNCHANGED <<is_done, message_text, last_update_time, listening, notified,
                 flushNow, flushedAt, chunks>>
  /\ UNCHANGED <<now, ticks, arrived, ufails, dpc>>
  /\ lastEv' = NoEvent
  /\ UNCHANGED ctlVars

\* the await of the stop handler's clear event (line 581) settles; line 586
StopClearDone(m, ok) ==
  /\ stop_pc[m] = "clear"
  /\ Outcome(ok)
  /\ IF ok
       THEN /\ DisposeHandler(m)
            /\ stop_pc' = [stop_pc EXCEPT ![m] = "done"]
       ELSE /\ stop_pc' = [stop_pc EXCEPT ![m] = "threw"]
            /\ UNCHANGED <<is_done, listening, notified, handlers>>
  /\ UNCHANGED <<genai, subscribed, isProcessing, lastInteractionTs, lastApiCallTs,
                 apiCallCount, attemptsAt, messageQueue, chatHistory>>
  /\ UNCHANGED <<procVars, chanVars>>
  /\ UNCHANGED <<message_text, last_update_time, flushNow, flushedAt, chunks>>
  /\ UNCHANGED <<now, ticks, arrived, ufails, dpc>>
  /\ lastEv' = NoEvent
  /\ UNCHANGED ctlVars

\* ---- GeminiAgent.dispose --------------------------------------------------
\* lines 239-240 up to the await of disconnectUser
DisposeStart ==
  /\ genai /\ dpc = "none"
  /\ subscribed' = FALSE
  /\ dpc' = "disconnect"
  /\ UNCHANGED <<genai, isProcessing, lastInteractionTs, lastApiCallTs,
                 apiCallCount, attemptsAt, messageQueue, chatHistory, handlers>>
  /\ UNCHANGED <<procVars, handlerVars, chanVars>>
  /\ UNCHANGED <<now, ticks, arrived, tfails, ufails>>
  /\ lastEv' = NoEvent
  /\ UNCHANGED ctlVars

\* the await of disconnectUser settles; lines 241-244
DisposeFinish(ok) ==
  LET live == {handlers[i] : i \in 1..Len(handlers)} IN
  /\ dpc = "disconnect"
  /\ Outcome(ok)
  /\ IF ok
       THEN /\ dpc' = "done"
            /\ is_done' = [m \in MsgIds |-> is_done[m] \/ m \in live]
            /\ listening' = [m \in MsgIds |->
                               IF m \in live /\ ~is_done[m] THEN FALSE ELSE listening[m]]
            /\ notified' = [m \in MsgIds |->
                              IF m \in live /\ ~is_done[m] THEN notified[m] + 1
                              ELSE notified[m]]
            /\ handlers' = <<>>
            /\ isProcessing' = FALSE
            /\ messageQueue' = <<>>
       ELSE /\ dpc' = "threw"
            /\ UNCHANGED <<is_done, listening, notified, handlers,
                           isProcessing, messageQueue>>
  /\ UNCHANGED <<genai, subscribed, lastInteractionTs, lastApiCallTs,
                 apiCallCount, attemptsAt, chatHistory>>
  /\ UNCHANGED <<procVars, chanVars>>
  /\ UNCHANGED <<message_text, last_update_time, stop_pc, flushNow, flushedAt, chunks>>
  /\ UNCHANGED <<now, ticks, arrived, ufails>>
  /\ lastEv' = NoEvent
  /\ UNCHANGED ctlVars

\* ---- environment ----------------------------------------------------------
\* a stop event names the target of a registered handler or another message (0)
StopIds == {0} \cup {m \in MsgIds : listening[m]}

ChunkTexts == {<<>>, Fragment(chunks + 1)}

\* the steps the settled awaits of processMessage and run() take; oks are the
\* outcomes the transport may give, outcomes those of the upstream call, of
\* which at most fails are failures
SchedulerSteps(oks, outcomes, fails) ==
  \/ \E m \in MsgIds, ok \in oks : SendMessageDone(m, ok)
  \/ \E m \in MsgIds, ok \in oks : SendThinkingDone(m, ok)
  \/ \E m \in MsgIds, ok \in oks : SendGeneratingDone(m, ok)
  \/ \E m \in MsgIds, outcome \in outcomes :
       /\ outcome # "ok" => ufails < fails
       /\ CallDone(m, outcome)

StreamerSteps(oks) ==
  \/ \E m \in MsgIds, ok \in oks : FlushDone(m, ok)
  \/ \E m \in MsgIds : StreamEnd(m)
  \/ \E m \in MsgIds, ok \in oks : FinalWriteDone(m, ok)
  \/ \E m \in MsgIds, ok \in oks : FinalClearDone(m, ok)
  \/ \E id \in StopIds : StopSignal(id)
  \/ \E m \in MsgIds, ok \in oks : StopWriteDone(m, ok)
  \/ \E m \in MsgIds, ok \in oks : StopClearDone(m, ok)

FailureSteps ==
  \/ \E m \in MsgIds : BackoffDone(m)
  \/ \E m \in MsgIds : StreamError(m)
  \/ \E m \in MsgIds, ok \in BOOLEAN : ErrEventDone(m, ok)
  \/ \E m \in MsgIds, ok \in BOOLEAN : ErrUpdateDone(m, ok)
  \/ \E m \in MsgIds, ok \in BOOLEAN : CatchEventDone(m, ok)
  \/ \E m \in MsgIds, ok \in BOOLEAN : CatchUpdateDone(m, ok)

\* Spec: CoreMsgs inbound messages, CoreChunks stream chunks with no delay,
\* failing transport and upstream, stop signals and agent disposal
Next ==
  \/ \E hasKey \in BOOLEAN : AgentInit(hasKey)
  \/ arrived < CoreMsgs /\ \E e \in InboundEvents : HandleMessage(e)
  \/ SchedulerSteps(BOOLEAN, UpstreamOutcomes, MaxUpFails)
  \/ \E m \in MsgIds : SpacingDone(m)
  \/ chunks < CoreChunks /\ \E m \in MsgIds, text \in ChunkTexts : StreamChunk(m, text, 0)
  \/ StreamerSteps(BOOLEAN)
  \/ FailureSteps
  \/ DisposeStart
  \/ \E ok \in BOOLEAN : DisposeFinish(ok)

Spec == Init /\ [][Next]_vars

\* SpecStream: one inbound message whose stream delivers up to MaxChunks
\* chunks at the delays of Delays, with everything else as in Spec
NextStream ==
  \/ \E hasKey \in BOOLEAN : AgentInit(hasKey)
  \/ arrived < StreamMsgs /\ \E e \in InboundEvents : HandleMessage(e)
  \/ SchedulerSteps(BOOLEAN, UpstreamOutcomes, MaxUpFails)
  \/ \E m \in MsgIds, d \in Delays, text \in ChunkTexts : StreamChunk(m, text, d)
  \/ StreamerSteps(BOOLEAN)
  \/ FailureSteps
  \/ DisposeStart
  \/ \E ok \in BOOLEAN : DisposeFinish(ok)

SpecStream == Init /\ [][NextStream]_vars

\* SpecQueue: MaxMsgs inbound messages, a transport and an upstream that
\* never fail, stop signals and agent disposal
NextQueue ==
  \/ \E hasKey \in BOOLEAN : AgentInit(hasKey)
  \/ \E e \in InboundEvents : HandleMessage(e)
  \/ SchedulerSteps({TRUE}, {"ok"}, 0)
  \/ \E m \in MsgIds : SpacingDone(m)
  \/ chunks < CoreChunks /\ \E m \in MsgIds, text \in ChunkTexts : StreamChunk(m, text, 0)
  \/ StreamerSteps({TRUE})
  \/ DisposeStart
  \/ DisposeFinish(TRUE)

SpecQueue == Init /\ [][NextQueue]_vars

\* SpecRetry: one inbound message whose upstream call may fail up to
\* MaxCallFails times, with a failing transport, the stream of Spec and
\* stop signals
NextRetry ==
  \/ \E hasKey \in BOOLEAN : AgentInit(hasKey)
  \/ arrived < StreamMsgs /\ \E e \in InboundEvents : HandleMessage(e)
  \/ SchedulerSteps(BOOLEAN, UpstreamOutcomes, MaxCallFails)
  \/ chunks < CoreChunks /\ \E m \in MsgIds, text \in ChunkTexts : StreamChunk(m, text, 0)
  \/ StreamerSteps(BOOLEAN)
  \/ FailureSteps

SpecRetry == Init /\ [][NextRetry]_vars

\* ---- control plane (lines 620-746) ---------------------------------------
coreVars == <<agentVars, procVars, handlerVars, chanVars, envVars>>

\* the response has been sent (lines 661-662, 667-668, 697, 699-702, 718-719,
\* 726, 728-731)
Respond(r) == reqPc' = [reqPc EXCEPT ![r] = "done"]

\* POST /start-ai-agent up to its first await (lines 656-679)
StartRequest(r) ==
  /\ reqPc[r] = "none"
  /\ \A q \in ReqIds : q < r => reqPc[q] # "none"
  /\ IF activeAgents # NoAgent
       THEN Respond(r)
       ELSE reqPc' = [reqPc EXCEPT ![r] = "upsertUser"]
  /\ UNCHANGED <<activeAgents, reqAgent, agentState, coreVars>>

\* upsertUser settles; addMembers is called (lines 674-683)
UpsertUserDone(r, ok) ==
  /\ reqPc[r] = "upsertUser"
  /\ IF ok THEN reqPc' = [reqPc EXCEPT ![r] = "addMembers"] ELSE Respond(r)
  /\ UNCHANGED <<activeAgents, reqAgent, agentState, coreVars>>

\* addMembers settles; createAgent is called (lines 683-691)
AddMembersDone(r, ok) ==
  /\ reqPc[r] = "addMembers"
  /\ IF ok THEN reqPc' = [reqPc EXCEPT ![r] = "createAgent"] ELSE Respond(r)
  /\ UNCHANGED <<activeAgents, reqAgent, agentState, coreVars>>

\* agent.init() (lines 257-267): throws without an API key, else subscribes
\* to message.new; it awaits nothing
InitAgent(a, hasKey) ==
  agentState' = [agentState EXCEPT ![a] = IF hasKey THEN "subscribed" ELSE "created"]

\* createAgent settles with a new agent; init() runs and the agent is
\* recorded under the channel_id (lines 686-698)
CreateAgentDone(r, ok, hasKey) ==
  /\ reqPc[r] = "createAgent"
  /\ IF ok
       THEN /\ InitAgent(r, hasKey)
            /\ reqAgent' = [reqAgent EXCEPT ![r] = r]
            /\ activeAgents' = IF hasKey THEN r ELSE activeAgents
       ELSE UNCHANGED <<activeAgents, reqAgent, agentState>>
  /\ Respond(r)
  /\ UNCHANGED coreVars

\* POST /stop-ai-agent up to its await: dispose() is called and unsubscribes
\* the agent before it awaits disconnectUser (lines 707-722, 238-240)
StopRequest(r) ==
  /\ reqPc[r] = "none"
  /\ \A q \in ReqIds : q < r => reqPc[q] # "none"
  /\ IF activeAgents = NoAgent
       THEN Respond(r) /\ UNCHANGED <<reqAgent, agentState>>
       ELSE /\ reqPc' = [reqPc EXCEPT ![r] = "dispose"]
            /\ reqAgent' = [reqAgent EXCEPT ![r] = activeAgents]
            /\ agentState' = [agentState EXCEPT ![activeAgents] = "disposing"]
  /\ UNCHANGED <<activeAgents, coreVars>>

\* disconnectUser settles: dispose() finishes and the entry of the channel_id
\* is deleted, or dispose() rejects and the entry stays (lines 240-245, 722-731)
StopDisposeDone(r, ok) ==
  /\ reqPc[r] = "dispose"
  /\ IF ok
       THEN /\ agentState' = [agentState EXCEPT ![reqAgent[r]] = "disposed"]
            /\ activeAgents' = NoAgent
       ELSE UNCHANGED <<activeAgents, agentState>>
  /\ Respond(r)
  /\ UNCHANGED <<reqAgent, coreVars>>

\* SpecControl: MaxRequests start and stop requests for one channel_id, whose
\* awaited calls may fail
NextControl ==
  \/ \E r \in ReqIds : StartRequest(r)
  \/ \E r \in ReqIds, ok \in BOOLEAN : UpsertUserDone(r, ok)
  \/ \E r \in ReqIds, ok \in BOOLEAN : AddMembersDone(r, ok)
  \/ \E r \in ReqIds, ok \in BOOLEAN, hasKey \in BOOLEAN : CreateAgentDone(r, ok, hasKey)
  \/ \E r \in ReqIds : StopRequest(r)
  \/ \E r \in ReqIds, ok \in BOOLEAN : StopDisposeDone(r, ok)

SpecControl == Init /\ [][NextControl]_vars

\* ---- properties -----------------------------------------------------------
\* the handler of m has been constructed / is non-terminal / its run() is over
Constructed(m) == listening[m] \/ is_done[m]
Live(m) == Constructed(m) /\ ~is_done[m]
RunPcs == {"run_next", "run_flush", "run_final_write", "run_final_clear",
           "err_event", "err_update"}
RunOver(m) == Constructed(m) /\ pc[m] \in {"done", "catchEvent", "catchUpdate"}
InFlight(m) == pc[m] \notin {"none", "done", "threw"}
UpstreamOpen(m) == pc[m] \in {"call", "backoff", "run_next", "run_flush"}
Quiescent == \A m \in MsgIds : ~InFlight(m)

Turns(role) == {i \in 1..Len(chatHistory) : chatHistory[i].role = role}
EntriesBy(log, bys) == {i \in 1..Len(log) : log[i].by \in bys}
Grew(old, new) == Len(new) > Len(old)
StreamerBys == {"flush", "final", "error"}

\* C1: single-flight: at most one response handler is non-terminal and at
\* most one upstream call or stream is open, in every reachable state
C1_SingleFlight ==
  /\ Cardinality({m \in MsgIds : Live(m)}) <= 1
  /\ Cardinality({m \in MsgIds : UpstreamOpen(m)}) <= 1

\* C1 witness: the second message streams while the first one's handler was
\* stopped and its run() is over
C1_Witness ==
  /\ pc[1] = "done" /\ stop_pc[1] # "none"
  /\ pc[2] = "run_next" /\ Live(2)

\* C2: FIFO: a later message starts only after every earlier one has finished
\* processing with its handler terminal, and a message that arrives while
\* another is in flight is appended to the queue and not started
C2_Fifo ==
  /\ [](\A a, b \in MsgIds :
          a < b /\ pc[b] # "none" => pc[a] = "done" /\ ~Live(a))
  /\ [][arrived' = arrived + 1 /\ (\E a \in MsgIds : InFlight(a))
          => /\ pc'[arrived'] = "none"
             /\ messageQueue' = Append(messageQueue, arrived')]_vars

\* C2 witness: the third message streams after the first two finished
C2_Witness ==
  /\ pc[1] = "done" /\ pc[2] = "done" /\ pc[3] = "run_next"
  /\ apiCallCount = 3

\* C3: when a live agent has nothing in flight, no message has been dropped:
\* the queue is empty, one upstream call was made per accepted message, and
\* history holds one user turn per message and at most as many model turns
C3_NoMessageDropped ==
  dpc = "none" /\ Quiescent =>
    /\ messageQueue = <<>>
    /\ apiCallCount = arrived
    /\ Cardinality(Turns("user")) = arrived
    /\ Cardinality(Turns("model")) <= arrived

\* C4: when the processing of a message has ended, by success or failure, the
\* processing flag is released
C4_FlagReleased ==
  \A m \in MsgIds : pc[m] \in {"done", "threw"} /\ Quiescent => ~isProcessing

\* C5: no handler performs two finalization writes or emits two terminal
\* indicator events (clear or ERROR)
C5_OneFinalization ==
  \A m \in MsgIds :
    /\ Cardinality(EntriesBy(writes[m], {"final", "stop", "error"})) <= 1
    /\ Cardinality(EntriesBy(events[m], {"final", "stop", "error"})) <= 1

\* C6: once a handler has terminated (its run() is over and no stop handler
\* is suspended), its stop listener is unregistered, the owner was notified
\* exactly once and the handler is not in the agent's handlers list
C6_Deregistered ==
  \A m \in MsgIds :
    RunOver(m) /\ stop_pc[m] \in {"none", "done"} =>
      /\ ~listening[m]
      /\ notified[m] = 1
      /\ \A i \in 1..Len(handlers) : handlers[i] # m

\* C7: the handlers list never holds more than one entry
C7_OneHandler == Len(handlers) <= 1

\* C8: once done is true it stays true, and run() and handleError() issue no
\* further write and no further indicator event for that handler
C8_NoEffectAfterDone ==
  [][\A m \in MsgIds : is_done[m] =>
       /\ is_done'[m]
       /\ Grew(writes[m], writes'[m])
            => writes'[m][Len(writes'[m])].by \notin StreamerBys
       /\ Grew(events[m], events'[m])
            => events'[m][Len(events'[m])].by \notin StreamerBys]_vars

\* this step delivers a stop event for the target of the non-terminal handler m
StopDelivered(m) ==
  /\ lastEv'.type = "ai_indicator.stop" /\ lastEv'.message_id = m
  /\ Live(m)

C10_StopOtherId ==
  [][lastEv'.type = "ai_indicator.stop" =>
       \A m \in MsgIds : lastEv'.message_id # m =>
         /\ is_done'[m] = is_done[m]
         /\ message_text'[m] = message_text[m]
         /\ last_update_time'[m] = last_update_time[m]
         /\ listening'[m] = listening[m]
         /\ stop_pc'[m] = stop_pc[m]
         /\ writes'[m] = writes[m]
         /\ events'[m] = events[m]]_vars

\* C10 witness: a stop event for another message was delivered while handler
\* 2 is non-terminal with text accumulated
C10_Witness ==
  /\ lastEv.type = "ai_indicator.stop" /\ lastEv.message_id # 2
  /\ Live(2) /\ message_text[2] # <<>>

\* the step delivers the next chunk of the stream to the non-terminal handler m
ChunkDelivered(m) ==
  /\ lastEv'.type = "stream.chunk" /\ lastEv'.message_id = m
  /\ ~is_done[m]

\* the processing of m is over and its handler ended by exhausting the stream,
\* with no stop and no error
Completed(m) ==
  /\ pc[m] = "done" /\ stop_pc[m] = "none"
  /\ EntriesBy(events[m], {"final"}) # {}
  /\ EntriesBy(events[m], {"error", "stop"}) = {}
  /\ EntriesBy(writes[m], {"error"}) = {}

\* C11: the accumulated text grows exactly by the text of each chunk delivered
\* to a non-terminal handler and changes in no other step; when the stream
\* ends on a non-terminal handler the accumulated text is written whatever was
\* flushed before; the clear event of run() is issued only after that write;
\* and after a completion the last write carries the accumulated text, which
\* is also the model turn appended to history when it is not empty
C11_LosslessFinal ==
  /\ [][\A m \in MsgIds :
          /\ ChunkDelivered(m) => message_text'[m] = message_text[m] \o lastEv'.text
          /\ message_text'[m] # message_text[m] => ChunkDelivered(m)
          /\ lastEv'.type = "stream.end" /\ lastEv'.message_id = m /\ ~is_done[m]
               => writes'[m] = Append(writes[m], Wr("final", message_text[m]))
          /\ events'[m] = Append(events[m], Ev("final", "ai_indicator.clear"))
               => \E i \in 1..Len(writes[m]) :
                     writes[m][i] = Wr("final", message_text[m])]_vars
  /\ [](\A m \in MsgIds : Completed(m) =>
          /\ writes[m][Len(writes[m])] = Wr("final", message_text[m])
          /\ message_text[m] # <<>> =>
                \E i \in 1..Len(chatHistory) :
                   chatHistory[i] = ModelTurn(m, message_text[m])
          /\ message_text[m] = <<>> =>
                \A i \in 1..Len(chatHistory) : chatHistory[i].msg # m
                                                  \/ chatHistory[i].role = "user")

\* C11 witness: two fragments arrived, the first was flushed, the second was
\* not, and the stream ended normally
C11_Witness ==
  /\ Completed(1)
  /\ message_text[1] = Fragment(1) \o Fragment(2)
  /\ writes[1] = <<Wr("flush", Fragment(1)), Wr("final", Fragment(1) \o Fragment(2))>>

\* C11 witness of the repeated write: the flush already carried the full text
C11_WitnessRepeat ==
  /\ Completed(1)
  /\ writes[1] = <<Wr("flush", Fragment(1)), Wr("final", Fragment(1))>>

\* the step issues the in-loop write of the text handler m has accumulated
Flushed(m) == writes'[m] = Append(writes[m], Wr("flush", message_text'[m]))

\* C12 as claimed: a chunk with empty text appends nothing and writes nothing;
\* an in-loop write is issued at least FlushInterval after the previous one;
\* and a fragment that arrives FlushInterval or more after the last in-loop
\* write triggers a write
C12_FlushThrottle ==
  [][\A m \in MsgIds : ChunkDelivered(m) =>
       /\ lastEv'.text = <<>> =>
             message_text'[m] = message_text[m] /\ writes'[m] = writes[m]
       /\ Flushed(m) /\ flushedAt[m] > 0 => now' - flushedAt[m] >= FlushInterval
       /\ lastEv'.text # <<>> /\ flushedAt[m] > 0
             /\ now' - flushedAt[m] >= FlushInterval => Flushed(m)]_vars

\* C12 amended: a chunk with empty text appends nothing and writes nothing; a
\* fragment triggers an in-loop write if and only if it is the first to be
\* written or arrives more than FlushInterval after the previous in-loop
\* write was issued, and issues no write otherwise
C12_FlushThrottleStrict ==
  [][\A m \in MsgIds : ChunkDelivered(m) =>
       /\ lastEv'.text = <<>> =>
             message_text'[m] = message_text[m] /\ writes'[m] = writes[m]
       /\ lastEv'.text # <<>> =>
             IF flushedAt[m] = 0 \/ now' - flushedAt[m] > FlushInterval
               THEN Flushed(m) /\ flushedAt'[m] = now'
               ELSE writes'[m] = writes[m] /\ flushedAt'[m] = flushedAt[m]]_vars

\* C12 witness: two in-loop writes were issued by one handler
C12_Witness ==
  /\ Cardinality(EntriesBy(writes[1], {"flush"})) = 2
  /\ flushedAt[1] > Now0 + FlushInterval

\* the step settles the upstream call attempt of message m
CallSettled(m) == lastEv'.type = "call.settled" /\ lastEv'.message_id = m

ModelTurnsOf(m) ==
  {i \in 1..Len(chatHistory) : chatHistory[i].role = "model" /\ chatHistory[i].msg = m}

\* C13: the n-th attempt for a message (n <= 3) that fails with a rate-limit
\* description is followed by a wait of 2^n seconds and attempt n + 1; any
\* other failure, or a rate-limit failure of the 4th attempt, goes to the
\* catch of processMessage with no further attempt; no message has more than 4
\* attempts, attempt n + 1 starts no earlier than 2^n seconds after attempt n,
\* a new attempt is made only when processing starts or a backoff ends, and a
\* message never gets more than one model turn, exactly one when its third
\* attempt succeeded and its stream completed with text
C13_RetryPolicy ==
  /\ [][\A m \in MsgIds : CallSettled(m) =>
          LET n == Len(attemptsAt[m])
              outcome == lastEv'.outcome IN
          /\ IsRateLimit(outcome) /\ n <= 3
               => /\ pc'[m] = "backoff"
                  /\ wakeAt'[m] = now + 2^n * 1000
          /\ outcome # "ok" /\ ~(IsRateLimit(outcome) /\ n <= 3)
               => /\ pc'[m] = "catchEvent"
                  /\ ~Constructed(m)'
          /\ outcome = "ok" => pc'[m] = "run_next"
          /\ attemptsAt'[m] = attemptsAt[m]]_vars
  /\ [][\A m \in MsgIds : attemptsAt'[m] # attemptsAt[m] =>
          /\ pc[m] \in {"sendGenerating", "backoff"}
          /\ pc[m] = "sendGenerating" <=> attemptsAt[m] = <<>>
          /\ Len(attemptsAt'[m]) = Len(attemptsAt[m]) + 1]_vars
  /\ [](\A m \in MsgIds :
          /\ Len(attemptsAt[m]) <= 4
          /\ \A i \in 2..Len(attemptsAt[m]) :
                attemptsAt[m][i] - attemptsAt[m][i - 1] >= 2^(i - 1) * 1000
          /\ pc[m] \in {"catchEvent", "catchUpdate", "done", "threw"} => wakeAt[m] = 0
          /\ Cardinality(ModelTurnsOf(m)) <= 1
          /\ Completed(m) /\ Len(attemptsAt[m]) = 3 /\ message_text[m] # <<>>
               => Cardinality(ModelTurnsOf(m)) = 1)

\* C13 witness: the first two attempts were rate-limited, the third succeeded
\* 2s + 4s after the first, and its text is the one model turn of history
C13_Witness ==
  /\ Completed(1) /\ Len(attemptsAt[1]) = 3
  /\ attemptsAt[1][3] = attemptsAt[1][1] + 6000
  /\ chatHistory = <<UserTurn(1), ModelTurn(1, Fragment(1))>>

\* C13 witness of exhaustion: four rate-limited attempts, the last 14s after
\* the first, then the failure notice
C13_WitnessExhausted ==
  /\ Len(attemptsAt[1]) = 4 /\ pc[1] = "catchUpdate"
  /\ attemptsAt[1][4] = attemptsAt[1][1] + 14000

Emitted(m, by, ev) == \E i \in 1..Len(events[m]) : events[m][i] = Ev(by, ev)
Written(m, by, text) == \E i \in 1..Len(writes[m]) : writes[m][i] = Wr(by, text)

\* the upstream call of m failed for good before a handler was built
CallFailed(m) == attemptsAt[m] # <<>> /\ ~Constructed(m) /\ pc[m] = "done"

\* C14 as claimed: when the upstream call fails for good, processMessage emits
\* AI_STATE_ERROR at once and has written the failure notice by the time the
\* processing is over; when the stream throws on a non-terminal handler, the
\* handler emits AI_STATE_ERROR at once and the target text has been
\* overwritten by the time the processing is over; and when the processing of
\* a message ends with messages queued, the first of them is started
C14_FailureNotSilent ==
  /\ [][\A m \in MsgIds :
          /\ CallSettled(m) /\ pc'[m] # "backoff" /\ lastEv'.outcome # "ok"
               => events'[m] = Append(events[m], Ev("agent", "AI_STATE_ERROR"))
          /\ lastEv'.type = "stream.error" /\ lastEv'.message_id = m /\ ~is_done[m]
               => events'[m] = Append(events[m], Ev("error", "AI_STATE_ERROR"))
          /\ pc[m] # "done" /\ pc'[m] = "done" /\ messageQueue # <<>> /\ dpc = "none"
               => pc'[Head(messageQueue)] = "sendMessage"]_vars
  /\ [](\A m \in MsgIds :
          /\ CallFailed(m)
               => Emitted(m, "agent", "AI_STATE_ERROR") /\ Written(m, "agent", SorryText)
          /\ pc[m] = "done" /\ Emitted(m, "error", "AI_STATE_ERROR")
               => Written(m, "error", ErrorText) \/ Written(m, "agent", SorryText))

\* the step settles a transport request and the transport accepted it
Resumed(m, at) == pc[m] = at /\ pc'[m] # at /\ tfails' = tfails

\* C14 amended: when the upstream call fails for good, processMessage emits
\* AI_STATE_ERROR at once and issues the write of the failure notice as soon
\* as the transport has accepted that event; when the stream throws on a
\* non-terminal handler, the handler emits AI_STATE_ERROR at once and issues
\* the write of the error description as soon as the transport has accepted
\* that event; if no transport request was rejected, the text has been
\* overwritten by the time the processing is over; and when the processing of
\* a message ends with messages queued, the first of them is started
C14_FailureReported ==
  /\ [][\A m \in MsgIds :
          /\ CallSettled(m) /\ pc'[m] # "backoff" /\ lastEv'.outcome # "ok"
               => events'[m] = Append(events[m], Ev("agent", "AI_STATE_ERROR"))
          /\ lastEv'.type = "stream.error" /\ lastEv'.message_id = m /\ ~is_done[m]
               => events'[m] = Append(events[m], Ev("error", "AI_STATE_ERROR"))
          /\ Resumed(m, "catchEvent")
               => writes'[m] = Append(writes[m], Wr("agent", SorryText))
          /\ Resumed(m, "err_event")
               => writes'[m] = Append(writes[m], Wr("error", ErrorText))
          /\ pc[m] # "done" /\ pc'[m] = "done" /\ messageQueue # <<>> /\ dpc = "none"
               => pc'[Head(messageQueue)] = "sendMessage"]_vars
  /\ [](\A m \in MsgIds : tfails = 0 =>
          /\ CallFailed(m)
               => Emitted(m, "agent", "AI_STATE_ERROR") /\ Written(m, "agent", SorryText)
          /\ pc[m] = "done" /\ Emitted(m, "error", "AI_STATE_ERROR")
               => Written(m, "error", ErrorText))

\* C14 witness: the call of the first message failed, the failure notice was
\* written, and the queued second message is being processed
C14_Witness ==
  /\ CallFailed(1) /\ Written(1, "agent", SorryText)
  /\ pc[2] = "run_next"

\* C14 witness at the handler: the stream threw after a fragment and the
\* handler wrote the error description
C14_WitnessStream ==
  /\ pc[1] = "done" /\ message_text[1] # <<>>
  /\ Emitted(1, "error", "AI_STATE_ERROR") /\ Written(1, "error", ErrorText)

\* C15: upstream attempts that belong to different messages are at least
\* MinCallSpacing apart, and once the call of the latest message has succeeded
\* lastApiCallTs is the time of that successful attempt
C15_CallSpacing ==
  /\ \A a, b \in MsgIds : a < b =>
        \A i \in 1..Len(attemptsAt[a]), j \in 1..Len(attemptsAt[b]) :
           attemptsAt[b][j] - attemptsAt[a][i] >= MinCallSpacing
  /\ \A m \in MsgIds :
        /\ Constructed(m)
        /\ \A b \in MsgIds : b > m => attemptsAt[b] = <<>>
        => lastApiCallTs = attemptsAt[m][Len(attemptsAt[m])]

TerminalEvents == {"ai_indicator.clear", "AI_STATE_ERROR"}

\* C16: for every message, no indicator event is emitted before the target
\* message exists; the first event is THINKING, emitted before the spacing
\* delay and before any upstream attempt; the second is GENERATING, emitted
\* before the first upstream attempt; and clear and ERROR events come only
\* after these two
C16_EventOrder ==
  \A m \in MsgIds :
    /\ pc[m] \in {"none", "sendMessage"} => events[m] = <<>> /\ attemptsAt[m] = <<>>
    /\ events[m] # <<>> => events[m][1] = Ev("agent", "AI_STATE_THINKING")
    /\ pc[m] = "spacing" =>
          events[m] = <<Ev("agent", "AI_STATE_THINKING")>> /\ attemptsAt[m] = <<>>
    /\ Len(events[m]) >= 2 => events[m][2] = Ev("agent", "AI_STATE_GENERATING")
    /\ attemptsAt[m] # <<>> => Len(events[m]) >= 2
    /\ \A i \in 1..Len(events[m]) : events[m][i].ev \in TerminalEvents => i >= 3

\* C16 witness: the second message waited for the call spacing, streamed and
\* completed
C16_Witness ==
  /\ Completed(2)
  /\ attemptsAt[2][1] = attemptsAt[1][1] + MinCallSpacing
  /\ events[2] = <<Ev("agent", "AI_STATE_THINKING"), Ev("agent", "AI_STATE_GENERATING"),
                   Ev("final", "ai_indicator.clear")>>

\* C17: once GeminiAgent.dispose has completed, the message.new subscription
\* is removed, no handler is non-terminal, the handlers list and the queue are
\* empty, and no later step starts an upstream call, constructs a handler or
\* registers a stop listener
C17_Disposed ==
  /\ [](dpc = "done" =>
          /\ ~subscribed
          /\ handlers = <<>> /\ messageQueue = <<>>
          /\ \A m \in MsgIds : ~Live(m))
  /\ [][dpc = "done" => \A m \in MsgIds :
          /\ attemptsAt'[m] = attemptsAt[m]
          /\ Constructed(m)' => Constructed(m)
          /\ listening'[m] => listening[m]]_vars

\* the inbound event is one the agent must drop
Filtered(e) == e.user = "bot" \/ ~e.hasMessage \/ e.ai_generated \/ ~e.hasText

\* C18: a message.new event that is authored by the bot, has no message, is
\* flagged ai_generated or has no text, or that arrives while the agent is not
\* initialised, changes neither the queue, the processing flag, the history
\* nor lastInteractionTs, and creates no channel message, emits no indicator
\* event, issues no write and starts no upstream call
C18_Filtered ==
  [][lastEv'.type = "message.new" /\ (Filtered(lastEv'.event) \/ ~genai) =>
       /\ UNCHANGED <<messageQueue, isProcessing, chatHistory, lastInteractionTs>>
       /\ UNCHANGED <<pc, events, writes, attemptsAt, apiCallCount, arrived>>]_vars

\* C18 witness: an ai_generated message arrived while the first message was
\* streaming
C18_Witness ==
  /\ lastEv.type = "message.new" /\ lastEv.event.ai_generated
  /\ pc[1] = "run_next" /\ pc[2] = "none" /\ messageQueue = <<>>

\* run() of the handler of m rejected: processMessage caught it at line 448
RunRejected(m) == Constructed(m) /\ Emitted(m, "agent", "AI_STATE_ERROR")

\* the only model turn of m carries text, or m has no model turn when text = <<>>
ModelTurnIs(m, text) ==
  IF text = <<>>
    THEN ModelTurnsOf(m) = {}
    ELSE /\ Cardinality(ModelTurnsOf(m)) = 1
         /\ \A i \in ModelTurnsOf(m) : chatHistory[i] = ModelTurn(m, text)

\* C19 as claimed: when the processing of a message whose handler was built is
\* over, run() has returned the accumulated text, and history holds a model
\* turn for the message exactly when that text is not empty, with that text; a
\* message whose call failed before a handler was built has no model turn
C19_HistoryFromRun ==
  \A m \in MsgIds :
    /\ pc[m] = "done" /\ Constructed(m) => ModelTurnIs(m, message_text[m])
    /\ ~Constructed(m) => ModelTurnsOf(m) = {}
    /\ pc[m] # "done" => ModelTurnsOf(m) = {}

\* C19 amended: the same, unless run() rejected because the transport
\* rejected a request of handleError, in which case no model turn is appended
C19_HistoryFromRunReturned ==
  \A m \in MsgIds :
    /\ pc[m] = "done" /\ Constructed(m) /\ ~RunRejected(m)
         => ModelTurnIs(m, message_text[m])
    /\ RunRejected(m) => ModelTurnsOf(m) = {} /\ tfails > 0
    /\ ~Constructed(m) => ModelTurnsOf(m) = {}
    /\ pc[m] # "done" => ModelTurnsOf(m) = {}

\* C19 witness: the first message was stopped after its first fragment and
\* that fragment is its model turn; the stream of the second message threw
\* before any fragment and it has no model turn
C19_Witness ==
  /\ pc[1] = "done" /\ stop_pc[1] # "none" /\ message_text[1] = Fragment(1)
  /\ pc[2] = "done" /\ Emitted(2, "error", "AI_STATE_ERROR") /\ ~RunRejected(2)
  /\ chatHistory = <<UserTurn(1), ModelTurn(1, Fragment(1)), UserTurn(2)>>

\* C20: however often dispose() of a handler is called (by the finally of
\* run(), by handleError, by the stop handler, by the agent), onDispose runs
\* at most once; the stop listener is unregistered in the call that runs
\* onDispose and is never registered again; and the step in which dispose()
\* takes effect issues no write for the handler and no indicator event other
\* than the one of the catch of processMessage
C20_DisposeIdempotent ==
  /\ [](\A m \in MsgIds : notified[m] <= 1)
  /\ [][\A m \in MsgIds :
          /\ notified'[m] # notified[m] <=> listening[m] /\ ~listening'[m]
          /\ Constructed(m) /\ ~listening[m] => ~listening'[m]
          /\ notified'[m] # notified[m] =>
                /\ writes'[m] = writes[m]
                /\ events'[m] # events[m] =>
                      events'[m] = Append(events[m], Ev("agent", "AI_STATE_ERROR"))]_vars
  /\ [][dpc = "disconnect" /\ dpc' = "done" => UNCHANGED <<writes, events>>]_vars

\* C20 witness: the agent disposed the handler while it was waiting for a
\* chunk, and run() then ended through its finally, which called dispose()
\* again
C20_Witness ==
  /\ dpc = "done" /\ pc[1] = "done" /\ Constructed(1)
  /\ stop_pc[1] = "none" /\ writes[1] = <<>>
  /\ ~Emitted(1, "error", "AI_STATE_ERROR") /\ ~Emitted(1, "agent", "AI_STATE_ERROR")
  /\ notified[1] = 1

\* old is a prefix of new
IsPrefix(old, new) == Len(old) <= Len(new) /\ SubSeq(new, 1, Len(old)) = old

\* C21: history changes only by appending; a user turn is appended only in
\* the step that starts processMessage for its message and a model turn only
\* in the step in which run() of its message returns, with the returned text;
\* and the turns of an earlier message all precede those of a later one, the
\* user turn of a message preceding its model turn
C21_HistoryInOrder ==
  /\ [][/\ IsPrefix(chatHistory, chatHistory')
        /\ \A i \in Len(chatHistory) + 1 .. Len(chatHistory') :
             LET turn == chatHistory'[i] IN
             IF turn.role = "user"
               THEN pc[turn.msg] = "none" /\ pc'[turn.msg] = "sendMessage"
               ELSE /\ pc[turn.msg] \in RunPcs /\ pc'[turn.msg] = "done"
                    /\ turn.text = message_text[turn.msg]]_vars
  /\ [](\A p, q \in 1..Len(chatHistory) : p < q =>
          \/ chatHistory[p].msg < chatHistory[q].msg
          \/ /\ chatHistory[p].msg = chatHistory[q].msg
             /\ chatHistory[p].role = "user" /\ chatHistory[q].role = "model")

\* C21 witness: the first message was answered with a fragment and the second
\* message is streaming
C21_Witness ==
  /\ chatHistory = <<UserTurn(1), ModelTurn(1, Fragment(1)), UserTurn(2)>>
  /\ pc[2] = "run_next" /\ dpc = "none"

\* the agents subscribed to message.new
Subscribed == {a \in ReqIds : agentState[a] = "subscribed"}

\* C22: at any time at most one agent of the channel is subscribed to
\* message.new, and every subscribed agent is the one recorded in
\* activeAgents, where a stop request finds it
C22_OneAgentPerChannel ==
  /\ Cardinality(Subscribed) <= 1
  /\ \A a \in Subscribed : activeAgents = a

\* C23: when handleMessage accepts a message, whether it starts processing it
\* or only queues it, lastInteractionTs is from then on not earlier than the
\* time of the arrival
C23_InteractionRecorded ==
  [][lastEv'.type = "message.new" /\ lastEv'.accepted
       => lastInteractionTs' >= now']_vars

\* the stop handler has run for m; the step is a stream item of m; the step
\* starts no message; the step is the completion of the agent's dispose()
StopHandled(m) == stop_pc[m] # "none"
StreamItem(m) ==
  /\ lastEv'.type \in {"stream.chunk", "stream.end", "stream.error"}
  /\ lastEv'.message_id = m
NoneStarts == \A k \in MsgIds : pc[k] = "none" => pc'[k] = "none"
DisposeCompletes == dpc = "disconnect" /\ dpc' = "done"

====
